---- MODULE Spec2Model ----
(***************************************************************************)
(* PyJet's GeneratorEnqueuer (pyjet/training.py): worker threads pull from *)
(* a shared source generator into a queue that one client consumes.  The   *)
(* client thread calls start / stop / __next__; every worker runs          *)
(* data_generator_task.  Each worker step is one read or write of shared   *)
(* state, so every interleaving of workers and client is explored.         *)
(*                                                                         *)
(* The module also models sequential components of the library, each under *)
(* a specification of its own: AverageMetric (metrics), MaskedInput        *)
(* (layers/wrappers), ModelCheckpoint (callbacks), TrainingLogs and        *)
(* LossManager (training) and ImageDataAugmenter (augmenters/image).       *)
(***************************************************************************)
EXTENDS Integers, Sequences, FiniteSets, TLC

\* ---- bounds of the model ----
MaxWorkers == 2
MaxQSize == 2
MaxItems == 2
MaxStarts == 2
MaxNexts == 3        \* number of items __next__ returns after one start()
MaxBatch == 2       \* largest batch size y_pred.size(0)
MaxScore == 2       \* largest batch score
MaxSamples == 3     \* calls are made while sample_count stays within it
MaxResets == 2      \* number of reset() calls
MaxRows == 2        \* largest batch dimension of a MaskedInput input
MaxLen == 3         \* largest sequence dimension of a MaskedInput input
MaxPeriod == 2      \* largest ModelCheckpoint period
MaxVal == 2         \* largest monitored value
MaxCalls == 4       \* number of ModelCheckpoint.on_epoch_end calls
MaxEpochs == 2      \* number of TrainingLogs epochs
MaxLosses == 2      \* largest number of losses registered at a time
MaxTransforms == 4  \* number of random_transform calls
MaxImages == 3      \* largest batch given to invert_images

\* np.Inf
PosInf == 99
NegInf == -PosInf
\* None as a monitored value, and a name that epoch_logs does not hold
NoValue == -1

\* Thread identities: the i-th thread of the r-th start() call.
Tid == 1..(MaxStarts * MaxWorkers)
NoItem == -1
\* gen_len of a source that yields for ever ("endlessly yields data")
Endless == -1

VARIABLES
    gen_len,        \* number of items the source yields before StopIteration,
                    \* or Endless
    gen_pos,        \* number of items the source has yielded so far
    has_queue,      \* self.queue is not None
    queue,          \* contents of self.queue (<<>> while it is None)
    stop_event,     \* self._stop_event: "None", "unset" or "set"
    threads,        \* self._threads: sequence of thread identities
    tpc,            \* position of each thread in data_generator_task
    held,           \* generator_output of each thread
    mq,             \* max_q_size captured by each thread's closure
    opc,            \* client position: "idle", "start", "stop" or "next"
    workers,        \* start(): the workers argument while start() runs
    max_q_size,     \* start(): the max_q_size argument while start() runs
    timeout,        \* stop(): the timeout argument while stop() runs
    join_i,         \* stop(): index of the thread the join loop is at
    reraise,        \* stop() was called from start()'s except clause
    result,         \* outcome of the client's last completed call
    delivered,      \* items __next__ has returned since the last start()
    starts          \* number of start() calls made

VARIABLES
    cpc             \* a consumer thread other than the owner: "idle" or "next"

VARIABLES
    metric_sum,     \* AverageMetric.metric_sum
    sample_count,   \* AverageMetric.sample_count
    original_dict,  \* Metric.__original_dict__: <<>> for None, else <<snapshot>>
    metric_op,      \* the last operation on the metric: "init", "call", "reset"
    calls_since_reset,  \* the (batch size, score) of each call since the last reset()
    resets          \* number of reset() calls made

VARIABLES
    masker,         \* MaskedInput.masker: <<>> for None, else rows of 0/1
    fwd_lens,       \* seq_lens of the last forward call
    fwd_out         \* last forward output: rows of "layer" / "mask" entries

VARIABLES
    period,                 \* ModelCheckpoint.period
    save_best_only,         \* ModelCheckpoint.save_best_only
    mode,                   \* the direction of monitor_op: "min" or "max"
    best,                   \* ModelCheckpoint.best
    epochs_since_last_save, \* ModelCheckpoint.epochs_since_last_save
    ck_calls,               \* number of on_epoch_end calls made
    saves                   \* the save_state invocations: call number and value

VARIABLES
    epoch_logs,     \* TrainingLogs.epoch_logs: name -> score, <<>> when absent
    logs,           \* the TrainingLogs dict: name -> list, <<>> when no key
    epochs,         \* TrainingLogs.epochs
    initial_epoch,  \* the initial_epoch argument of TrainingLogs.__init__
    epoch_history,  \* epoch_logs as it was at each on_epoch_end
    in_epoch        \* on_epoch_begin has been called and on_epoch_end not yet

VARIABLES
    loss_names,         \* LossManager.__loss_names
    loss_dict,          \* the keys of LossManager.__loss_dict
    loss_input_dict,    \* the keys of LossManager.__loss_input_dict
    loss_weight_dict,   \* the keys of LossManager.__loss_weight_dict
    loss_scores,        \* the keys of LossManager.__loss_scores
    verify_loss_args,   \* LossManager.__verify_loss_args
    lm_op,              \* the last LossManager method called
    lm_arg,             \* its name argument, NoName for None
    lm_result,          \* "ok" or the exception it raised
    lm_ret              \* the name it returned, or whose score it returned

VARIABLES
    save_inverses,      \* ImageDataAugmenter.save_inverses
    inverse_transforms, \* the deque, leftmost element first
    transforms,         \* number of random_transform calls made
    recorded,           \* transforms recorded since the last invert_images
    aug_op,             \* the last call: "init", "transform" or "invert"
    inv_n,              \* invert_images: the number of images given
    inv_recorded,       \* invert_images: `recorded` as the call found it
    inv_used,           \* invert_images: the transform used for each image
    inv_result          \* invert_images: "none", "ok" or "IndexError"

enqVars == <<gen_len, gen_pos, has_queue, queue, stop_event, threads, tpc, held,
             mq, opc, workers, max_q_size, timeout, join_i, reraise, result,
             delivered, starts>>
metricVars == <<metric_sum, sample_count, original_dict, metric_op,
                calls_since_reset, resets>>
maskVars == <<masker, fwd_lens, fwd_out>>
ckptVars == <<period, save_best_only, mode, best, epochs_since_last_save,
              ck_calls, saves>>
logsVars == <<epoch_logs, logs, epochs, initial_epoch, epoch_history,
              in_epoch>>
lossVars == <<loss_names, loss_dict, loss_input_dict, loss_weight_dict,
              loss_scores, verify_loss_args, lm_op, lm_arg, lm_result, lm_ret>>
augVars == <<save_inverses, inverse_transforms, transforms, recorded, aug_op,
             inv_n, inv_recorded, inv_used, inv_result>>

\* the components other than the enqueuer
libVars == <<metricVars, maskVars, ckptVars, logsVars, lossVars, augVars>>

\* what the owner thread and the workers leave alone
otherVars == <<cpc, libVars>>

vars == <<enqVars, otherVars>>

srcVars == <<gen_len, gen_pos>>
objVars == <<has_queue, queue, stop_event, threads>>
thrVars == <<tpc, held, mq>>
cliVars == <<opc, workers, max_q_size, timeout, join_i, reraise, result,
             delivered, starts>>

Range(s) == {s[i] : i \in 1..Len(s)}

\* threading.Thread.is_alive(): started and not yet terminated
Alive(t) == tpc[t] \in {"loop", "size", "pull", "put", "sleep", "except"}

\* GeneratorEnqueuer.is_running
is_running == stop_event # "None" /\ stop_event # "set"

\* GeneratorEnqueuer.__init__(generator), the source being one of `sources`
EnqInitOn(sources) ==
    /\ gen_len \in sources
    /\ gen_pos = 0
    /\ has_queue = FALSE
    /\ queue = <<>>
    /\ stop_event = "None"
    /\ threads = <<>>
    /\ tpc = [t \in Tid |-> "none"]
    /\ held = [t \in Tid |-> NoItem]
    /\ mq = [t \in Tid |-> 0]
    /\ opc = "idle"
    /\ workers = 0
    /\ max_q_size = 0
    /\ timeout = "None"
    /\ join_i = 0
    /\ reraise = FALSE
    /\ result = "none"
    /\ delivered = <<>>
    /\ starts = 0
    /\ cpc = "idle"

\* GeneratorEnqueuer.__init__, on a source of any length up to MaxItems
EnqInit == EnqInitOn(0..MaxItems)

\* The state a terminating thread is left in: `how` while self._threads still
\* lists it (stop() tests is_alive() on it), forgotten once nothing refers to it.
Ended(t, how) == IF t \in Range(threads) THEN how ELSE "none"

\* ---------------------------------------------------------------------
\* data_generator_task, one step per access to shared state.  The closure
\* captures self and max_q_size: self.queue and self._stop_event are read
\* afresh at every access, so a None there raises AttributeError.

\* a mutant of WLoop: a set stop flag does not end the loop
WLoopIgnoresSet(t) ==
    /\ tpc[t] = "loop"
    /\ tpc' = [tpc EXCEPT ![t] =
                 IF stop_event = "None" THEN Ended(t, "crashed") ELSE "size"]
    /\ mq' = IF stop_event = "None" /\ t \notin Range(threads)
             THEN [mq EXCEPT ![t] = 0] ELSE mq
    /\ UNCHANGED <<otherVars, srcVars, objVars, held, cliVars>>

\* `while not self._stop_event.is_set()`; the read is outside the try block
WLoop(t) ==
    /\ tpc[t] = "loop"
    /\ tpc' = [tpc EXCEPT ![t] =
                 IF stop_event = "None" THEN Ended(t, "crashed")
                 ELSE IF stop_event = "set" THEN Ended(t, "exited")
                 ELSE "size"]
    /\ mq' = IF stop_event \in {"None", "set"} /\ t \notin Range(threads)
             THEN [mq EXCEPT ![t] = 0] ELSE mq
    /\ UNCHANGED <<otherVars, srcVars, objVars, held, cliVars>>

\* a mutant of QHasRoom: the size test is off by one
QHasRoomOffByOne(t) == Len(queue) <= mq[t]

\* `self.queue.qsize() < max_q_size`
QHasRoom(t) == Len(queue) < mq[t]

\* `if self.queue.qsize() < max_q_size: ... else: time.sleep(...)`
WSize(t) ==
    /\ tpc[t] = "size"
    /\ tpc' = [tpc EXCEPT ![t] =
                 IF ~has_queue THEN "except"
                 ELSE IF QHasRoom(t) THEN "pull"
                 ELSE "sleep"]
    /\ UNCHANGED <<otherVars, srcVars, objVars, held, mq, cliVars>>

\* next(self._generator) yields an item rather than raising StopIteration
SourceHasNext == gen_len = Endless \/ gen_pos < gen_len

\* the position of the source after a pull; the items of an endless source
\* are numbered round MaxItems
SourceAdvance ==
    IF gen_len = Endless THEN (gen_pos + 1) % MaxItems ELSE gen_pos + 1

\* `generator_output = next(self._generator)`: the next item, or StopIteration
WPull(t) ==
    /\ tpc[t] = "pull"
    /\ IF SourceHasNext
       THEN /\ held' = [held EXCEPT ![t] = gen_pos]
            /\ gen_pos' = SourceAdvance
            /\ tpc' = [tpc EXCEPT ![t] = "put"]
       ELSE /\ tpc' = [tpc EXCEPT ![t] = "except"]
            /\ UNCHANGED <<held, gen_pos>>
    /\ UNCHANGED <<otherVars, gen_len, objVars, mq, cliVars>>

\* a mutant of WPut: the queue is bounded by max_q_size and put blocks on a
\* full queue
WPutBlocks(t) ==
    /\ tpc[t] = "put"
    /\ has_queue => Len(queue) < mq[t]
    /\ IF has_queue
       THEN /\ queue' = Append(queue, held[t])
            /\ tpc' = [tpc EXCEPT ![t] = "loop"]
       ELSE /\ tpc' = [tpc EXCEPT ![t] = "except"]
            /\ UNCHANGED queue
    /\ held' = [held EXCEPT ![t] = NoItem]
    /\ UNCHANGED <<otherVars, srcVars, has_queue, stop_event, threads, mq, cliVars>>

\* `self.queue.put(generator_output)`; queue.Queue() is unbounded, put never blocks
WPut(t) ==
    /\ tpc[t] = "put"
    /\ IF has_queue
       THEN /\ queue' = Append(queue, held[t])
            /\ tpc' = [tpc EXCEPT ![t] = "loop"]
       ELSE /\ tpc' = [tpc EXCEPT ![t] = "except"]
            /\ UNCHANGED queue
    /\ held' = [held EXCEPT ![t] = NoItem]
    /\ UNCHANGED <<otherVars, srcVars, has_queue, stop_event, threads, mq, cliVars>>

\* `time.sleep(self.wait_time)`
WSleep(t) ==
    /\ tpc[t] = "sleep"
    /\ tpc' = [tpc EXCEPT ![t] = "loop"]
    /\ UNCHANGED <<otherVars, srcVars, objVars, held, mq, cliVars>>

\* a mutant of WExcept: the error is raised without setting the stop flag
WExceptNoSet(t) ==
    /\ tpc[t] = "except"
    /\ tpc' = [tpc EXCEPT ![t] = Ended(t, "crashed")]
    /\ mq' = IF t \notin Range(threads) THEN [mq EXCEPT ![t] = 0] ELSE mq
    /\ UNCHANGED <<otherVars, srcVars, objVars, held, cliVars>>

\* `except Exception: self._stop_event.set(); raise`
WExcept(t) ==
    /\ tpc[t] = "except"
    /\ stop_event' = IF stop_event = "None" THEN "None" ELSE "set"
    /\ tpc' = [tpc EXCEPT ![t] = Ended(t, "crashed")]
    /\ mq' = IF t \notin Range(threads) THEN [mq EXCEPT ![t] = 0] ELSE mq
    /\ UNCHANGED <<otherVars, srcVars, has_queue, queue, threads, held, cliVars>>

Worker(t) ==
    \/ WLoop(t)
    \/ WSize(t)
    \/ WPull(t)
    \/ WPut(t)
    \/ WSleep(t)
    \/ WExcept(t)

\* ---------------------------------------------------------------------
\* The client thread: start(), stop() and __next__().

\* the enqueuer as __init__ and a completed stop() leave it
IdleState == threads = <<>> /\ stop_event = "None" /\ ~has_queue

\* identity of the next thread start() creates
NewTid == (starts - 1) * MaxWorkers + Len(threads) + 1

\* a mutant of StopEntry: the stop flag is not set before the joins
StopEntryNoSet(to, fromStart) ==
    /\ stop_event' = stop_event
    /\ timeout' = to
    /\ join_i' = 1
    /\ reraise' = fromStart
    /\ opc' = "stop"

\* entry of stop(timeout): `if self.is_running(): self._stop_event.set()`,
\* then the join loop begins at the first thread
StopEntry(to, fromStart) ==
    /\ stop_event' = IF is_running THEN "set" ELSE stop_event
    /\ timeout' = to
    /\ join_i' = 1
    /\ reraise' = fromStart
    /\ opc' = "stop"

\* a mutant of StartBegin: no stop flag object is created
StartBeginNoEvent(w, n) ==
    /\ opc = "idle"
    /\ IdleState
    /\ starts < MaxStarts
    /\ has_queue' = TRUE
    /\ queue' = <<>>
    /\ opc' = "start"
    /\ workers' = w
    /\ max_q_size' = n
    /\ starts' = starts + 1
    /\ delivered' = <<>>
    /\ UNCHANGED <<otherVars, srcVars, stop_event, threads, thrVars, timeout, join_i,
                   reraise, result>>

\* start(workers=w, max_q_size=n) up to the loop: the queue and the stop flag
\* are created.  start() is called on an idle enqueuer (its precondition).
StartBegin(w, n) ==
    /\ opc = "idle"
    /\ IdleState
    /\ starts < MaxStarts
    /\ has_queue' = TRUE
    /\ queue' = <<>>
    /\ stop_event' = "unset"
    /\ opc' = "start"
    /\ workers' = w
    /\ max_q_size' = n
    /\ starts' = starts + 1
    /\ delivered' = <<>>
    /\ UNCHANGED <<otherVars, srcVars, threads, thrVars, timeout, join_i, reraise, result>>

\* one iteration of `for _ in range(workers)`: the thread is appended and started
StartSpawn ==
    /\ opc = "start"
    /\ Len(threads) < workers
    /\ threads' = Append(threads, NewTid)
    /\ tpc' = [tpc EXCEPT ![NewTid] = "loop"]
    /\ mq' = [mq EXCEPT ![NewTid] = max_q_size]
    /\ UNCHANGED <<otherVars, srcVars, has_queue, queue, stop_event, held, cliVars>>

\* a mutant of StartSpawnFail: the error leaves start() without the call of stop()
StartSpawnFailNoStop ==
    /\ opc = "start"
    /\ Len(threads) < workers
    /\ threads' = Append(threads, NewTid)
    /\ tpc' = [tpc EXCEPT ![NewTid] = "new"]
    /\ opc' = "idle"
    /\ result' = "start_err"
    /\ workers' = 0
    /\ max_q_size' = 0
    /\ UNCHANGED <<otherVars, srcVars, has_queue, queue, stop_event, held, mq, timeout,
                   join_i, reraise, delivered, starts>>

\* an iteration in which Thread.start() raises: the thread was appended but
\* never runs, and the except clause calls self.stop()
StartSpawnFail ==
    /\ opc = "start"
    /\ Len(threads) < workers
    /\ threads' = Append(threads, NewTid)
    /\ tpc' = [tpc EXCEPT ![NewTid] = "new"]
    /\ StopEntry("None", TRUE)
    /\ UNCHANGED <<otherVars, srcVars, has_queue, queue, held, mq, workers, max_q_size,
                   result, delivered, starts>>

\* start() returns once every worker is spawned
StartReturn ==
    /\ opc = "start"
    /\ Len(threads) = workers
    /\ opc' = "idle"
    /\ result' = "start_ok"
    /\ workers' = 0
    /\ max_q_size' = 0
    /\ UNCHANGED <<otherVars, srcVars, objVars, thrVars, timeout, join_i, reraise,
                   delivered, starts>>

\* the client calls stop(timeout)
StopCall(to) ==
    /\ opc = "idle"
    /\ StopEntry(to, FALSE)
    /\ UNCHANGED <<otherVars, srcVars, has_queue, queue, threads, thrVars, workers,
                   max_q_size, result, delivered, starts>>

\* a mutant of JoinReturns: join() returns without waiting for the thread
JoinReturnsAtOnce(t) == TRUE

\* `if thread.is_alive(): thread.join(timeout)` returns: the thread is dead,
\* or a finite timeout has run out
JoinReturns(t) == ~Alive(t) \/ timeout # "None"

\* one iteration of `for thread in self._threads`
StopJoin ==
    /\ opc = "stop"
    /\ join_i <= Len(threads)
    /\ JoinReturns(threads[join_i])
    /\ join_i' = join_i + 1
    /\ UNCHANGED <<otherVars, srcVars, objVars, thrVars, opc, workers, max_q_size,
                   timeout, reraise, result, delivered, starts>>

\* a mutant of StopClear: the queue reference is not cleared
StopClearKeepsQueue ==
    /\ opc = "stop"
    /\ join_i > Len(threads)
    /\ threads' = <<>>
    /\ stop_event' = "None"
    /\ tpc' = [t \in Tid |-> IF t \in Range(threads) /\ ~Alive(t)
                             THEN "none" ELSE tpc[t]]
    /\ mq' = [t \in Tid |-> IF t \in Range(threads) /\ ~Alive(t)
                            THEN 0 ELSE mq[t]]
    /\ opc' = "idle"
    /\ result' = IF reraise THEN "start_err" ELSE "stop_ok"
    /\ workers' = 0
    /\ max_q_size' = 0
    /\ timeout' = "None"
    /\ join_i' = 0
    /\ reraise' = FALSE
    /\ UNCHANGED <<otherVars, srcVars, has_queue, queue, held, delivered, starts>>

\* a mutant of StopClear: the stop flag reference is not cleared
StopClearKeepsEvent ==
    /\ opc = "stop"
    /\ join_i > Len(threads)
    /\ threads' = <<>>
    /\ has_queue' = FALSE
    /\ queue' = <<>>
    /\ tpc' = [t \in Tid |-> IF t \in Range(threads) /\ ~Alive(t)
                             THEN "none" ELSE tpc[t]]
    /\ mq' = [t \in Tid |-> IF t \in Range(threads) /\ ~Alive(t)
                            THEN 0 ELSE mq[t]]
    /\ opc' = "idle"
    /\ result' = IF reraise THEN "start_err" ELSE "stop_ok"
    /\ workers' = 0
    /\ max_q_size' = 0
    /\ timeout' = "None"
    /\ join_i' = 0
    /\ reraise' = FALSE
    /\ UNCHANGED <<otherVars, srcVars, stop_event, held, delivered, starts>>

\* the end of stop(): the three references are cleared and stop() returns, or
\* start() re-raises when stop() ran in its except clause.  Thread objects
\* that are dead and no longer referenced are forgotten; a thread that is
\* still alive keeps running without being listed.
StopClear ==
    /\ opc = "stop"
    /\ join_i > Len(threads)
    /\ threads' = <<>>
    /\ stop_event' = "None"
    /\ has_queue' = FALSE
    /\ queue' = <<>>
    /\ tpc' = [t \in Tid |-> IF t \in Range(threads) /\ ~Alive(t)
                             THEN "none" ELSE tpc[t]]
    /\ mq' = [t \in Tid |-> IF t \in Range(threads) /\ ~Alive(t)
                            THEN 0 ELSE mq[t]]
    /\ opc' = "idle"
    /\ result' = IF reraise THEN "start_err" ELSE "stop_ok"
    /\ workers' = 0
    /\ max_q_size' = 0
    /\ timeout' = "None"
    /\ join_i' = 0
    /\ reraise' = FALSE
    /\ UNCHANGED <<otherVars, srcVars, held, delivered, starts>>

\* a mutant of NextCall: the running check is missing
NextCallNoCheck ==
    /\ opc = "idle"
    /\ opc' = "next"
    /\ UNCHANGED <<otherVars, srcVars, objVars, thrVars, workers, max_q_size, timeout,
                   join_i, reraise, result, delivered, starts>>

\* __next__ up to the loop: `if not self.is_running(): raise ValueError(...)`
NextCall ==
    /\ opc = "idle"
    /\ Len(delivered) < MaxNexts
    /\ IF is_running
       THEN /\ opc' = "next"
            /\ UNCHANGED result
       ELSE /\ result' = "next_ValueError"
            /\ UNCHANGED opc
    /\ UNCHANGED <<otherVars, srcVars, objVars, thrVars, workers, max_q_size, timeout,
                   join_i, reraise, delivered, starts>>

\* a mutant of QueueGet: the newest item is taken
QueueGetNewest(q) == [item |-> q[Len(q)], rest |-> SubSeq(q, 1, Len(q) - 1)]

\* a mutant of QueueGet: the item is returned but stays in the queue
QueueGetKeepsItem(q) == [item |-> Head(q), rest |-> q]

\* queue.Queue.get(): the oldest item, and the queue without it
QueueGet(q) == [item |-> Head(q), rest |-> Tail(q)]

\* a mutant of NextPoll: the loop tests is_running() again and raises
NextPollChecksFlag ==
    /\ opc = "next"
    /\ IF has_queue /\ is_running
       THEN /\ Len(queue) > 0
            /\ queue' = QueueGet(queue).rest
            /\ delivered' = Append(delivered, QueueGet(queue).item)
            /\ result' = "next_item"
       ELSE /\ result' = "next_ValueError"
            /\ UNCHANGED <<queue, delivered>>
    /\ opc' = "idle"
    /\ UNCHANGED <<otherVars, srcVars, has_queue, stop_event, threads, thrVars, workers,
                   max_q_size, timeout, join_i, reraise, starts>>

\* a mutant of NextPoll: the loop waits for a second item before it returns
NextPollOffByOne ==
    /\ opc = "next"
    /\ IF has_queue
       THEN /\ Len(queue) > 1
            /\ queue' = QueueGet(queue).rest
            /\ delivered' = Append(delivered, QueueGet(queue).item)
            /\ result' = "next_item"
       ELSE /\ result' = "next_AttributeError"
            /\ UNCHANGED <<queue, delivered>>
    /\ opc' = "idle"
    /\ UNCHANGED <<otherVars, srcVars, has_queue, stop_event, threads, thrVars, workers,
                   max_q_size, timeout, join_i, reraise, starts>>

\* the loop of __next__: `if not self.queue.empty(): return self.queue.get()`;
\* with an empty queue it sleeps and tries again, which changes nothing
NextPoll ==
    /\ opc = "next"
    /\ IF has_queue
       THEN /\ Len(queue) > 0
            /\ queue' = QueueGet(queue).rest
            /\ delivered' = Append(delivered, QueueGet(queue).item)
            /\ result' = "next_item"
       ELSE /\ result' = "next_AttributeError"
            /\ UNCHANGED <<queue, delivered>>
    /\ opc' = "idle"
    /\ UNCHANGED <<otherVars, srcVars, has_queue, stop_event, threads, thrVars, workers,
                   max_q_size, timeout, join_i, reraise, starts>>

\* ---------------------------------------------------------------------
\* A consumer thread that is not the owner: it calls __next__ while the
\* owner thread calls start() and stop().

\* __next__ up to the loop, on the consumer thread
ConsumerCall ==
    /\ cpc = "idle"
    /\ opc # "next"
    /\ Len(delivered) < MaxNexts
    /\ IF is_running
       THEN /\ cpc' = "next"
            /\ UNCHANGED result
       ELSE /\ result' = "next_ValueError"
            /\ UNCHANGED cpc
    /\ UNCHANGED <<libVars, srcVars, objVars, thrVars, opc, workers, max_q_size,
                   timeout, join_i, reraise, delivered, starts>>

\* the loop of __next__ on the consumer thread: self.queue is read afresh
\* at every turn
ConsumerPoll ==
    /\ cpc = "next"
    /\ IF has_queue
       THEN /\ Len(queue) > 0
            /\ queue' = QueueGet(queue).rest
            /\ delivered' = Append(delivered, QueueGet(queue).item)
            /\ result' = "next_item"
       ELSE /\ result' = "next_AttributeError"
            /\ UNCHANGED <<queue, delivered>>
    /\ cpc' = "idle"
    /\ UNCHANGED <<libVars, srcVars, has_queue, stop_event, threads, thrVars, opc,
                   workers, max_q_size, timeout, join_i, reraise, starts>>

\* ---------------------------------------------------------------------
\* metrics/abstract_metrics.py: Metric and AverageMetric

\* AverageMetric.__init__
MetricInit ==
    /\ metric_sum = 0
    /\ sample_count = 0
    /\ original_dict = <<>>
    /\ metric_op = "init"
    /\ calls_since_reset = <<>>
    /\ resets = 0

\* copy.deepcopy(self.__dict__): the attributes as they are now, the
\* __original_dict__ attribute among them
DictCopy ==
    [metric_sum |-> metric_sum, sample_count |-> sample_count,
     original_dict |-> original_dict]

\* a mutant of MetricCall: the snapshot is taken after the sums are updated
MetricCallSnapshotLate(n, sc) ==
    /\ sample_count + n <= MaxSamples
    /\ sample_count' = sample_count + n
    /\ metric_sum' = metric_sum + sc * n
    /\ original_dict' =
         IF original_dict = <<>>
         THEN <<[metric_sum |-> metric_sum + sc * n,
                 sample_count |-> sample_count + n,
                 original_dict |-> original_dict]>>
         ELSE original_dict
    /\ metric_op' = "call"
    /\ calls_since_reset' = Append(calls_since_reset, [n |-> n, score |-> sc])
    /\ UNCHANGED <<resets, enqVars, cpc, maskVars, ckptVars, logsVars, lossVars, augVars>>


\* a mutant of MetricCall: the batch score is added without its weight
MetricCallUnweighted(n, sc) ==
    /\ sample_count + n <= MaxSamples
    /\ original_dict' = IF original_dict = <<>> THEN <<DictCopy>> ELSE original_dict
    /\ sample_count' = sample_count + n
    /\ metric_sum' = metric_sum + sc
    /\ metric_op' = "call"
    /\ calls_since_reset' = Append(calls_since_reset, [n |-> n, score |-> sc])
    /\ UNCHANGED <<resets, enqVars, cpc, maskVars, ckptVars, logsVars, lossVars, augVars>>

\* AverageMetric.__call__ on a batch of n samples that scores sc:
\* Metric.__call__ saves the attributes on the first call, then the sums grow
MetricCall(n, sc) ==
    /\ sample_count + n <= MaxSamples
    /\ original_dict' =
         IF original_dict = <<>> THEN <<DictCopy>> ELSE original_dict
    /\ sample_count' = sample_count + n
    /\ metric_sum' = metric_sum + sc * n
    /\ metric_op' = "call"
    /\ calls_since_reset' = Append(calls_since_reset, [n |-> n, score |-> sc])
    /\ UNCHANGED <<resets, enqVars, cpc, maskVars, ckptVars, logsVars, lossVars, augVars>>

\* Metric.reset: self.__dict__ becomes a copy of the saved attributes
MetricReset ==
    /\ resets < MaxResets
    /\ IF original_dict # <<>>
       THEN /\ metric_sum' = original_dict[1].metric_sum
            /\ sample_count' = original_dict[1].sample_count
            /\ original_dict' = original_dict[1].original_dict
       ELSE UNCHANGED <<metric_sum, sample_count, original_dict>>
    /\ metric_op' = "reset"
    /\ calls_since_reset' = <<>>
    /\ resets' = resets + 1
    /\ UNCHANGED <<enqVars, cpc, maskVars, ckptVars, logsVars, lossVars, augVars>>

\* AverageMetric.accumulate: metric_sum / sample_count, as the quotient
\* num / den (ZeroDivisionError when den = 0)
accumulate == [num |-> metric_sum, den |-> sample_count]

\* ---------------------------------------------------------------------
\* layers/wrappers.py: MaskedInput

\* MaskedInput.__init__
MaskInit ==
    /\ masker = <<>>
    /\ fwd_lens = <<>>
    /\ fwd_out = <<>>

\* J.zeros(*x.size()).byte() for an input of b rows and n positions
Zeros(b, n) == [i \in 1..b |-> [t \in 1..n |-> 0]]

\* `self.masker is None or x.size() != self.masker.size()`
MaskerStale(b, n) ==
    \/ masker = <<>>
    \/ Len(masker) # b
    \/ Len(masker[1]) # n

\* the masker the fill starts from: new zeros only when the shape changed
MaskerBase(b, n) == IF MaskerStale(b, n) THEN Zeros(b, n) ELSE masker

\* `self.masker[i, seq_len:].fill_(1)` for every row (positions counted from 1)
MaskerFilled(m, lens) ==
    [i \in 1..Len(m) |->
        [t \in 1..Len(m[i]) |-> IF t > lens[i] THEN 1 ELSE m[i][t]]]

\* MaskedInput.forward(x, seq_lens) for x of b rows and n positions: the
\* output holds mask_value where the masker is 1, the layer's output elsewhere
Forward(b, n, lens) ==
    /\ masker' = MaskerFilled(MaskerBase(b, n), lens)
    /\ fwd_out' = [i \in 1..b |->
                     [t \in 1..n |-> IF masker'[i][t] = 1 THEN "mask" ELSE "layer"]]
    /\ fwd_lens' = lens
    /\ UNCHANGED <<enqVars, cpc, metricVars, ckptVars, logsVars, lossVars, augVars>>

\* ---------------------------------------------------------------------
\* callbacks.py: ModelCheckpoint

\* ModelCheckpoint.__init__(period=p, save_best_only=sbo), m the direction
\* that mode and the monitor's name select
CkptInit(p, sbo, m) ==
    /\ period = p
    /\ save_best_only = sbo
    /\ mode = m
    /\ best = IF m = "min" THEN PosInf ELSE NegInf
    /\ epochs_since_last_save = 0
    /\ ck_calls = 0
    /\ saves = <<>>

\* a mutant of MonitorOp: np.less_equal / np.greater_equal
MonitorOpOrEqual(a, b) == IF mode = "min" THEN a <= b ELSE a >= b

\* self.monitor_op: np.less for min, np.greater for max
MonitorOp(a, b) == IF mode = "min" THEN a < b ELSE a > b

\* a mutant of PeriodNotReached: the period test is off by one
PeriodNotReachedOffByOne(n) == n <= period

\* `if self.epochs_since_last_save < self.period: return`
PeriodNotReached(n) == n < period

\* ModelCheckpoint.on_epoch_end where logs[self.monitor] is cur
OnEpochEnd(cur) ==
    /\ ck_calls < MaxCalls
    /\ ck_calls' = ck_calls + 1
    /\ LET since == epochs_since_last_save + 1
           save == /\ ~PeriodNotReached(since)
                   /\ save_best_only => (cur # NoValue /\ MonitorOp(cur, best))
       IN /\ epochs_since_last_save' = IF save THEN 0 ELSE since
          /\ saves' = IF save
                      THEN Append(saves, [call |-> ck_calls + 1, value |-> cur])
                      ELSE saves
          /\ best' = IF save /\ save_best_only THEN cur ELSE best
    /\ UNCHANGED <<period, save_best_only, mode>>
    /\ UNCHANGED <<enqVars, cpc, metricVars, maskVars, logsVars, lossVars, augVars>>

\* ---------------------------------------------------------------------
\* training.py: TrainingLogs, for a metric "m" and its validation score

Names == {"m", "val_m"}

\* TrainingLogs.__init__(initial_epoch=e0)
LogsInit(e0) ==
    /\ epoch_logs = [k \in Names |-> NoValue]
    /\ logs = [k \in Names |-> <<>>]
    /\ epochs = e0
    /\ initial_epoch = e0
    /\ epoch_history = <<>>
    /\ in_epoch = FALSE

\* TrainingLogs.on_epoch_begin
LogsEpochBegin ==
    /\ ~in_epoch
    /\ epochs - initial_epoch < MaxEpochs
    /\ in_epoch' = TRUE
    /\ epoch_logs' = [k \in Names |-> NoValue]
    /\ UNCHANGED <<logs, epochs, initial_epoch, epoch_history>>
    /\ UNCHANGED <<enqVars, cpc, metricVars, maskVars, ckptVars, lossVars, augVars>>

\* TrainingLogs.log_metrics([m], [score]) when m.accumulate() is v
LogMetrics(v) ==
    /\ in_epoch
    /\ epoch_logs' = [epoch_logs EXCEPT !["m"] = v]
    /\ UNCHANGED <<logs, epochs, initial_epoch, epoch_history, in_epoch>>
    /\ UNCHANGED <<enqVars, cpc, metricVars, maskVars, ckptVars, lossVars, augVars>>

\* TrainingLogs.log_validation_metrics([m]) when m.accumulate() is v
LogValidationMetrics(v) ==
    /\ in_epoch
    /\ epoch_logs' = [epoch_logs EXCEPT !["val_m"] = v]
    /\ UNCHANGED <<logs, epochs, initial_epoch, epoch_history, in_epoch>>
    /\ UNCHANGED <<enqVars, cpc, metricVars, maskVars, ckptVars, lossVars, augVars>>

\* TrainingLogs.on_epoch_end: every score of epoch_logs is appended to the
\* list of its name
LogsEpochEnd ==
    /\ in_epoch
    /\ in_epoch' = FALSE
    /\ logs' = [k \in Names |-> IF epoch_logs[k] # NoValue
                                THEN Append(logs[k], epoch_logs[k])
                                ELSE logs[k]]
    /\ epochs' = epochs + 1
    /\ epoch_history' = Append(epoch_history, epoch_logs)
    /\ UNCHANGED <<epoch_logs, initial_epoch>>
    /\ UNCHANGED <<enqVars, cpc, metricVars, maskVars, ckptVars, lossVars, augVars>>

\* ---------------------------------------------------------------------
\* training.py: LossManager.  The dictionaries are modelled by their keys.

\* the name argument None
NoName == "None"

\* "loss_{}".format(k)
LossName(k) == "loss_" \o ToString(k)

\* the names a caller passes
UserNames == {LossName(k) : k \in 0..(MaxLosses - 1)} \cup {"aux"}

\* LossManager.__init__
LossInit ==
    /\ loss_names = <<>>
    /\ loss_dict = {}
    /\ loss_input_dict = {}
    /\ loss_weight_dict = {}
    /\ loss_scores = {}
    /\ verify_loss_args = TRUE
    /\ lm_op = "init"
    /\ lm_arg = NoName
    /\ lm_result = "ok"
    /\ lm_ret = NoName

\* list.remove(x): the list without the first occurrence of x
RECURSIVE ListRemove(_, _)
ListRemove(l, x) ==
    IF l = <<>> THEN <<>>
    ELSE IF Head(l) = x THEN Tail(l)
    ELSE <<Head(l)>> \o ListRemove(Tail(l), x)

\* LossManager.add_loss(loss_fn, inputs, name=arg)
AddLoss(arg) ==
    /\ Len(loss_names) < MaxLosses
    /\ lm_op' = "add_loss"
    /\ lm_arg' = arg
    /\ LET name == IF arg = NoName THEN LossName(Cardinality(loss_dict)) ELSE arg
       IN IF name \in loss_dict
          THEN /\ lm_result' = "AssertionError"
               /\ lm_ret' = NoName
               /\ UNCHANGED <<loss_names, loss_dict, loss_input_dict,
                              loss_weight_dict>>
          ELSE /\ loss_dict' = loss_dict \cup {name}
               /\ loss_input_dict' = loss_input_dict \cup {name}
               /\ loss_weight_dict' = loss_weight_dict \cup {name}
               /\ loss_names' = Append(loss_names, name)
               /\ lm_result' = "ok"
               /\ lm_ret' = name
    /\ UNCHANGED <<loss_scores, verify_loss_args>>
    /\ UNCHANGED <<enqVars, cpc, metricVars, maskVars, ckptVars, logsVars, augVars>>

\* LossManager.remove_loss(name=arg): the name leaves the list first, then
\* each dictionary in turn; a pop of a missing key raises KeyError
RemoveLoss(arg) ==
    /\ lm_op' = "remove_loss"
    /\ lm_arg' = arg
    /\ IF arg = NoName /\ loss_names = <<>>
       THEN /\ lm_result' = "IndexError"
            /\ lm_ret' = NoName
            /\ UNCHANGED <<loss_names, loss_dict, loss_input_dict,
                           loss_weight_dict>>
       ELSE IF arg # NoName /\ arg \notin Range(loss_names)
       THEN /\ lm_result' = "ValueError"
            /\ lm_ret' = NoName
            /\ UNCHANGED <<loss_names, loss_dict, loss_input_dict,
                           loss_weight_dict>>
       ELSE LET name == IF arg = NoName THEN loss_names[Len(loss_names)] ELSE arg
                inAll == /\ name \in loss_dict
                         /\ name \in loss_input_dict
                         /\ name \in loss_weight_dict
            IN /\ loss_names' = IF arg = NoName
                                THEN SubSeq(loss_names, 1, Len(loss_names) - 1)
                                ELSE ListRemove(loss_names, name)
               /\ loss_dict' = loss_dict \ {name}
               /\ loss_input_dict' =
                     IF name \in loss_dict
                     THEN loss_input_dict \ {name} ELSE loss_input_dict
               /\ loss_weight_dict' =
                     IF name \in loss_dict /\ name \in loss_input_dict
                     THEN loss_weight_dict \ {name} ELSE loss_weight_dict
               /\ lm_result' = IF inAll THEN "ok" ELSE "KeyError"
               /\ lm_ret' = IF inAll THEN name ELSE NoName
    /\ UNCHANGED <<loss_scores, verify_loss_args>>
    /\ UNCHANGED <<enqVars, cpc, metricVars, maskVars, ckptVars, logsVars, augVars>>

\* LossManager.loss(model, targets): hasInputs says whether the model has the
\* attributes the losses take as inputs.  Every registered loss is computed
\* and its score cached.
Loss(hasInputs) ==
    /\ lm_op' = "loss"
    /\ lm_arg' = NoName
    /\ lm_ret' = NoName
    /\ IF ~hasInputs /\ loss_names # <<>>
       THEN /\ lm_result' = "AttributeError"
            /\ UNCHANGED <<loss_scores, verify_loss_args>>
       ELSE /\ lm_result' = "ok"
            /\ verify_loss_args' = FALSE
            /\ loss_scores' = loss_scores \cup Range(loss_names)
    /\ UNCHANGED <<loss_names, loss_dict, loss_input_dict, loss_weight_dict>>
    /\ UNCHANGED <<enqVars, cpc, metricVars, maskVars, ckptVars, logsVars, augVars>>

\* LossManager.get_loss_score(name=arg).  Without a name, the assertion
\* `not len(self.__loss_names)` passes only on an empty list, and its first
\* element is then read.
GetLossScore(arg) ==
    /\ lm_op' = "get_loss_score"
    /\ lm_arg' = arg
    /\ IF arg = NoName
       THEN /\ lm_result' = IF Len(loss_names) # 0
                            THEN "AssertionError" ELSE "IndexError"
            /\ lm_ret' = NoName
       ELSE /\ lm_result' = IF arg \in loss_scores THEN "ok" ELSE "KeyError"
            /\ lm_ret' = IF arg \in loss_scores THEN arg ELSE NoName
    /\ UNCHANGED <<loss_names, loss_dict, loss_input_dict, loss_weight_dict,
                   loss_scores, verify_loss_args>>
    /\ UNCHANGED <<enqVars, cpc, metricVars, maskVars, ckptVars, logsVars, augVars>>

\* ---------------------------------------------------------------------
\* augmenters/image.py: the inverse-transform queue of ImageDataAugmenter.
\* A transform is named by the number of the random_transform call that
\* recorded it.

\* ImageDataAugmenter.__init__(save_inverses=si)
AugInit(si) ==
    /\ save_inverses = si
    /\ inverse_transforms = <<>>
    /\ transforms = 0
    /\ recorded = <<>>
    /\ aug_op = "init"
    /\ inv_n = 0
    /\ inv_recorded = <<>>
    /\ inv_used = <<>>
    /\ inv_result = "none"

\* ImageDataAugmenter.random_transform: with save_inverses the inverse is
\* pushed with appendleft
RandomTransform ==
    /\ transforms < MaxTransforms
    /\ transforms' = transforms + 1
    /\ aug_op' = "transform"
    /\ IF save_inverses
       THEN /\ inverse_transforms' = <<transforms + 1>> \o inverse_transforms
            /\ recorded' = Append(recorded, transforms + 1)
       ELSE UNCHANGED <<inverse_transforms, recorded>>
    /\ UNCHANGED <<save_inverses, inv_n, inv_recorded, inv_used, inv_result>>
    /\ UNCHANGED <<enqVars, cpc, metricVars, maskVars, ckptVars, logsVars, lossVars>>

\* the transforms that n calls of apply_inversion_transform pop, in order:
\* deque.pop() takes the rightmost element
Popped(q, n) == [i \in 1..n |-> q[Len(q) + 1 - i]]

\* ImageDataAugmenter.invert_images on a batch of n images: one pop for each
\* image, IndexError when the deque is empty, and the deque is replaced by an
\* empty one at the end
InvertImages(n) ==
    /\ aug_op' = "invert"
    /\ inv_n' = n
    /\ inv_recorded' = recorded
    /\ recorded' = <<>>
    /\ inverse_transforms' = <<>>
    /\ IF n <= Len(inverse_transforms)
       THEN /\ inv_used' = Popped(inverse_transforms, n)
            /\ inv_result' = "ok"
       ELSE /\ inv_used' = Popped(inverse_transforms, Len(inverse_transforms))
            /\ inv_result' = "IndexError"
    /\ UNCHANGED <<save_inverses, transforms>>
    /\ UNCHANGED <<enqVars, cpc, metricVars, maskVars, ckptVars, logsVars, lossVars>>

\* ---------------------------------------------------------------------
\* GeneratorEnqueuer on its own thread of control, with its workers

\* Every component as its constructor leaves it
Init ==
    /\ EnqInit
    /\ MetricInit
    /\ MaskInit
    /\ CkptInit(1, FALSE, "min")
    /\ LogsInit(0)
    /\ LossInit
    /\ AugInit(TRUE)

\* stop() is called with its default timeout=None
Next ==
    \/ \E w \in 1..MaxWorkers, n \in 1..MaxQSize : StartBegin(w, n)
    \/ StartSpawn
    \/ StartSpawnFail
    \/ StartReturn
    \/ StopCall("None")
    \/ StopJoin
    \/ StopClear
    \/ NextCall
    \/ NextPoll
    \/ \E t \in Tid : Worker(t)

Spec == Init /\ [][Next]_vars

\* stop() is called with timeout=None or with a finite timeout
NextT ==
    \/ \E w \in 1..MaxWorkers, n \in 1..MaxQSize : StartBegin(w, n)
    \/ StartSpawn
    \/ StartSpawnFail
    \/ StartReturn
    \/ \E to \in {"None", "finite"} : StopCall(to)
    \/ StopJoin
    \/ StopClear
    \/ NextCall
    \/ NextPoll
    \/ \E t \in Tid : Worker(t)

SpecT == Init /\ [][NextT]_vars

\* threads are scheduled fairly: a worker that can take a step eventually does
FairSpec == Spec /\ \A t \in Tid : WF_vars(Worker(t))

\* __next__ is called from a second thread while the owner starts and stops
NextC ==
    \/ Next
    \/ ConsumerCall
    \/ ConsumerPoll

SpecC == Init /\ [][NextC]_vars

\* the source is finite or endless
InitAnySource ==
    /\ EnqInitOn((0..MaxItems) \cup {Endless})
    /\ MetricInit
    /\ MaskInit
    /\ CkptInit(1, FALSE, "min")
    /\ LogsInit(0)
    /\ LossInit
    /\ AugInit(TRUE)

\* every thread is scheduled fairly: the workers, and the client inside
\* stop() and inside the loop of __next__
LiveSpec ==
    /\ InitAnySource
    /\ [][Next]_vars
    /\ \A t \in Tid : WF_vars(Worker(t))
    /\ WF_vars(StopJoin)
    /\ WF_vars(StopClear)
    /\ WF_vars(NextPoll)

\* ---------------------------------------------------------------------
\* The sequential components, each used on its own

\* the enqueuer on an empty source, never started
EnqUnused == gen_len = 0 /\ EnqInit

\* one AverageMetric: calls on batches, and resets
InitMetric ==
    /\ EnqUnused
    /\ MetricInit
    /\ MaskInit
    /\ CkptInit(1, FALSE, "min")
    /\ LogsInit(0)
    /\ LossInit
    /\ AugInit(TRUE)

NextMetric ==
    \/ \E n \in 1..MaxBatch, sc \in 0..MaxScore : MetricCall(n, sc)
    \/ MetricReset

SpecMetric == InitMetric /\ [][NextMetric]_vars

\* one MaskedInput: forward calls on padded batches of any shape and lengths
NextMask ==
    \E b \in 1..MaxRows, n \in 1..MaxLen :
        \E lens \in [1..b -> 0..n] : Forward(b, n, lens)

SpecMask == InitMetric /\ [][NextMask]_vars

\* one ModelCheckpoint, constructed with any period, save_best_only and mode
InitCkpt ==
    /\ EnqUnused
    /\ MetricInit
    /\ MaskInit
    /\ \E p \in 1..MaxPeriod, sbo \in BOOLEAN, m \in {"min", "max"} :
          CkptInit(p, sbo, m)
    /\ LogsInit(0)
    /\ LossInit
    /\ AugInit(TRUE)

NextCkpt == \E cur \in (0..MaxVal) \cup {NoValue} : OnEpochEnd(cur)

SpecCkpt == InitCkpt /\ [][NextCkpt]_vars

\* one TrainingLogs, constructed with initial_epoch 0 or 1
InitLogs ==
    /\ EnqUnused
    /\ MetricInit
    /\ MaskInit
    /\ CkptInit(1, FALSE, "min")
    /\ \E e0 \in 0..1 : LogsInit(e0)
    /\ LossInit
    /\ AugInit(TRUE)

NextLogs ==
    \/ LogsEpochBegin
    \/ \E v \in 0..MaxScore : LogMetrics(v)
    \/ \E v \in 0..MaxScore : LogValidationMetrics(v)
    \/ LogsEpochEnd

SpecLogs == InitLogs /\ [][NextLogs]_vars

\* one LossManager
NextLoss ==
    \/ \E arg \in UserNames \cup {NoName} : AddLoss(arg)
    \/ \E arg \in UserNames \cup {NoName} : RemoveLoss(arg)
    \/ \E hasInputs \in BOOLEAN : Loss(hasInputs)
    \/ \E arg \in UserNames \cup {NoName} : GetLossScore(arg)

SpecLoss == InitMetric /\ [][NextLoss]_vars

\* one ImageDataAugmenter, constructed with or without save_inverses
InitAug ==
    /\ EnqUnused
    /\ MetricInit
    /\ MaskInit
    /\ CkptInit(1, FALSE, "min")
    /\ LogsInit(0)
    /\ LossInit
    /\ \E si \in BOOLEAN : AugInit(si)

NextAug ==
    \/ RandomTransform
    \/ \E n \in 1..MaxImages : InvertImages(n)

SpecAug == InitAug /\ [][NextAug]_vars

\* ---------------------------------------------------------------------
\* Properties of GeneratorEnqueuer

SomeWorkerCrashed == \E t \in Range(threads) : tpc[t] = "crashed"

\* C1 (as the claim states it): immediately after start() returns,
\* is_running() is True, whatever the source generator does.
C1_RunningAfterStart ==
    [][(opc = "start" /\ opc' = "idle") => is_running']_vars

\* C1 (amended): is_running() is False before the first start() and False
\* immediately after stop() returns; immediately after start() returns the
\* stop flag exists, and is_running() is True unless a worker has already
\* raised and set the flag.
C1_IsRunningLifecycle ==
    /\ [](starts = 0 => ~is_running)
    /\ [][(opc = "start" /\ opc' = "idle")
            => /\ stop_event' # "None"
               /\ (is_running' \/ SomeWorkerCrashed')]_vars
    /\ [][(opc = "stop" /\ opc' = "idle") => ~is_running']_vars

\* start() has returned with every worker spawned and is_running() is True
C1_Witness ==
    /\ opc = "idle"
    /\ result = "start_ok"
    /\ Len(threads) = MaxWorkers
    /\ is_running

\* C2: __next__ enters its loop only when the enqueuer is running; called
\* while not running it fails with ValueError and leaves the queue, the stop
\* flag and the worker list as they were.
C2_NextNotRunning ==
    [][/\ (opc = "idle" /\ opc' = "next") => is_running
       /\ (result' = "next_ValueError" /\ result # "next_ValueError")
            => (~is_running /\ UNCHANGED objVars)]_vars

\* __next__ has failed on an enqueuer whose stop flag a worker set, with items
\* still in the queue
C2_Witness ==
    /\ opc = "idle"
    /\ result = "next_ValueError"
    /\ stop_event = "set"
    /\ Len(queue) > 0

\* C3: with one worker the items __next__ returns are consecutive items of
\* the source in source order, starting with item 0 in the first run.
C3_SingleWorkerOrder ==
    (opc # "start" /\ Len(threads) = 1 /\ delivered # <<>>)
        => /\ \A i \in 1..Len(delivered) : delivered[i] = delivered[1] + i - 1
           /\ starts = 1 => delivered[1] = 0

\* one worker, first run: __next__ has returned 0, 1
C3_Witness ==
    /\ Len(threads) = 1
    /\ starts = 1
    /\ delivered = <<0, 1>>

\* C4: the queue never holds more than max_q_size + (workers - 1) items.
C4_QueueBound ==
    has_queue =>
        IF threads = <<>> THEN queue = <<>>
        ELSE Len(queue) <= mq[threads[1]] + Len(threads) - 1

\* two workers have both inserted after seeing room: the queue holds
\* max_q_size + 1 items
C4_Witness ==
    /\ has_queue
    /\ Len(threads) = 2
    /\ Len(queue) = mq[threads[1]] + 1

\* C5 (as the claim states it): repeated __next__ calls deliver every item
\* that was inserted: no call fails while inserted items are undelivered.
C5_NoItemLeftBehind ==
    ~(opc = "idle" /\ result = "next_ValueError" /\ has_queue /\ queue # <<>>)

\* C6: stop() on an enqueuer that was never started, or right after a
\* stop(), finds the idle state and keeps it; after stop() returns the
\* enqueuer is idle and is_running() is False.
C6_StopIdempotent ==
    /\ (opc = "stop" /\ ~reraise /\ result \in {"none", "stop_ok"}) => IdleState
    /\ (opc = "idle" /\ result = "stop_ok") => (IdleState /\ ~is_running)

\* a second stop() in a row has run through its join loop
C6_Witness ==
    /\ opc = "stop"
    /\ ~reraise
    /\ result = "stop_ok"
    /\ join_i > Len(threads)
    /\ starts > 0

\* C7 (as the claim states it): a run begins with an empty queue and only
\* workers spawned by its own start() insert into it, whatever timeout the
\* stop() before it was given.
C7_CleanRestart ==
    [][/\ (opc = "idle" /\ opc' = "start") => queue' = <<>>
       /\ Len(queue') > Len(queue)
            => \E t \in Range(threads) : tpc[t] = "put" /\ tpc'[t] = "loop"]_vars

\* every listed worker has terminated
AllJoined == \A t \in Range(threads) : ~Alive(t)

\* C8 (as the claim states it): when stop() returns, with any timeout, no
\* worker of the preceding start() is alive.
C8_NoWorkerOutlivesStop ==
    (opc = "stop" /\ join_i > Len(threads)) => AllJoined

\* C8 (amended): when stop() called with timeout=None returns, no worker of
\* the preceding start() is alive.
C8_NoWorkerOutlivesStopNone ==
    (opc = "stop" /\ join_i > Len(threads) /\ timeout = "None") => AllJoined

\* stop(timeout=None) has joined a full pool of workers that all ran
C8_Witness ==
    /\ opc = "stop"
    /\ ~reraise
    /\ timeout = "None"
    /\ join_i > Len(threads)
    /\ Len(threads) = MaxWorkers
    /\ \A t \in Range(threads) : tpc[t] = "exited"

\* C9 (as the claim states it): between operations the queue and the stop
\* flag exist iff is_running() is True.
C9_ExistIffRunning ==
    opc = "idle" => ((has_queue /\ stop_event # "None") <=> is_running)

\* C9 (amended): between operations the queue exists iff the stop flag
\* exists, and is_running() True implies both exist (not the converse).
C9_ExistTogether ==
    opc = "idle" => /\ has_queue <=> stop_event # "None"
                    /\ is_running => has_queue

\* a worker has failed and set the flag, stop() has not been called: the
\* queue and the flag exist and is_running() is False
C9_Witness ==
    /\ opc = "idle"
    /\ has_queue
    /\ stop_event = "set"
    /\ SomeWorkerCrashed

\* C10: a worker that fails has set the stop flag; once a worker has failed
\* every listed worker terminates; is_running() turns True only by start().
C10_FailureStopsAll ==
    /\ [](SomeWorkerCrashed => stop_event = "set")
    /\ (SomeWorkerCrashed ~> AllJoined)
    /\ [][(~is_running /\ is_running') => (opc = "idle" /\ opc' = "start")]_vars

\* one worker has failed and a sibling has seen the flag and exited, with no
\* stop() called
C10_Witness ==
    /\ opc = "idle"
    /\ has_queue
    /\ SomeWorkerCrashed
    /\ \E t \in Range(threads) : tpc[t] = "exited"

\* C11 (as the claim states it): a __next__ call made after a worker has
\* failed, with no stop() since, never raises to its caller.
C11_NoRaiseAfterCrash ==
    ~(opc = "idle" /\ has_queue /\ SomeWorkerCrashed /\ result = "next_ValueError")

\* C11 (amended): while a worker has failed and stop() has not been called, a
\* __next__ call neither enters the wait loop nor returns an item: its only
\* outcome is ValueError.
C11_RaisesAfterCrash ==
    [][(opc = "idle" /\ has_queue /\ stop_event = "set")
         => /\ opc' \in {"idle", "stop"}
            /\ delivered' = delivered
            /\ result' # result => result' = "next_ValueError"]_vars

\* a worker has failed, the queue is drained, and the call that followed has
\* raised ValueError
C11_Witness ==
    /\ opc = "idle"
    /\ has_queue
    /\ queue = <<>>
    /\ SomeWorkerCrashed
    /\ result = "next_ValueError"

\* a __next__ call is in its wait loop, the queue is empty and every worker
\* has terminated
Stalled ==
    /\ opc = "next"
    /\ has_queue
    /\ queue = <<>>
    /\ threads # <<>>
    /\ AllJoined

\* C12: a __next__ call that is polling an empty queue when all workers have
\* terminated stays in its loop for ever: it neither returns nor raises.
C12_StallForEver ==
    [][Stalled => (Stalled' /\ UNCHANGED <<result, delivered>>)]_vars

\* the call stalls after a worker's failure set the stop flag
C12_Witness == Stalled /\ SomeWorkerCrashed /\ stop_event = "set"

\* C13: when spawning fails in start(), stop() runs with the flag set and joins
\* every started worker, and start() raises leaving the enqueuer idle.
C13_SpawnFailureTornDown ==
    /\ (opc = "stop" /\ reraise) => stop_event = "set"
    /\ (opc = "stop" /\ reraise /\ join_i > Len(threads)) => AllJoined
    /\ (opc = "idle" /\ result = "start_err") => (IdleState /\ ~is_running)

\* start() has raised after a worker it had started pulled from the source
C13_Witness ==
    /\ opc = "idle"
    /\ result = "start_err"
    /\ starts = 1
    /\ gen_pos > 0

\* C14: after stop(timeout) returns the worker list is empty and the stop
\* flag and queue references are None, even when a worker is still alive.
C14_ClearedWhateverJoined ==
    (opc = "idle" /\ result = "stop_ok")
        => (threads = <<>> /\ stop_event = "None" /\ ~has_queue /\ queue = <<>>)

\* stop() has returned and a worker it did not wait for is still alive
C14_Witness ==
    /\ opc = "idle"
    /\ result = "stop_ok"
    /\ \E t \in Tid : Alive(t)

\* C15: the stop flag goes None -> unset only by start(), unset -> set,
\* set -> None only by the end of stop(); so is_running() turns True only by
\* a fresh start().
C15_Lifecycle ==
    [][/\ stop_event = "None" => stop_event' \in {"None", "unset"}
       /\ stop_event = "unset" => stop_event' \in {"unset", "set"}
       /\ stop_event = "set" => stop_event' \in {"set", "None"}
       /\ (stop_event # "unset" /\ stop_event' = "unset")
            => (stop_event = "None" /\ opc = "idle" /\ opc' = "start")
       /\ (stop_event # "None" /\ stop_event' = "None")
            => (opc = "stop" /\ opc' = "idle")]_vars

\* a second start() has made is_running() True again
C15_Witness ==
    /\ starts = 2
    /\ opc = "idle"
    /\ result = "start_ok"
    /\ is_running

\* ---------------------------------------------------------------------
\* Properties of AverageMetric

RECURSIVE SumOf(_)
\* the sum of score * batch size over a sequence of calls
SumOf(cs) ==
    IF cs = <<>> THEN 0 ELSE cs[1].score * cs[1].n + SumOf(Tail(cs))

RECURSIVE CountOf(_)
\* the number of samples of a sequence of calls
CountOf(cs) == IF cs = <<>> THEN 0 ELSE cs[1].n + CountOf(Tail(cs))

\* C16: reset() restores the attributes to their values at initialization:
\* right after a reset, whether or not calls came before it, metric_sum and
\* sample_count are 0 and no snapshot is held; and at any time the two sums
\* are those of the calls made since the last reset, on every epoch.
C16_ResetRestoresInit ==
    /\ metric_op = "reset" =>
          metric_sum = 0 /\ sample_count = 0 /\ original_dict = <<>>
    /\ metric_sum = SumOf(calls_since_reset)
    /\ sample_count = CountOf(calls_since_reset)

\* calls, a reset, calls, a second reset, and two calls after it
C16_Witness ==
    /\ resets = 2
    /\ metric_op = "call"
    /\ Len(calls_since_reset) = 2
    /\ metric_sum > 0

\* ---------------------------------------------------------------------
\* Properties of MaskedInput

\* C17: the output of the latest forward call holds mask_value at (i, t)
\* exactly when t is at or past seq_lens[i] of that call (t counted from 0;
\* here positions are counted from 1, so when t > seq_lens[i]).
C17_MasksExactlyPadded ==
    \A i \in 1..Len(fwd_out) : \A t \in 1..Len(fwd_out[i]) :
        (fwd_out[i][t] = "mask") <=> (t > fwd_lens[i])

\* ---------------------------------------------------------------------
\* Properties of ModelCheckpoint

\* C18: save_state is invoked only when at least `period` calls of
\* on_epoch_end have occurred since the previous save (or construction), and
\* with save_best_only=False the saves are exactly the calls number period,
\* 2 * period, 3 * period, ...
C18_SavesEveryPeriod ==
    /\ \A k \in 1..Len(saves) :
          saves[k].call - (IF k = 1 THEN 0 ELSE saves[k - 1].call) >= period
    /\ ~save_best_only =>
          /\ Len(saves) = ck_calls \div period
          /\ \A k \in 1..Len(saves) : saves[k].call = k * period

\* period 2 without save_best_only, after four epochs and two saves
C18_Witness ==
    /\ ~save_best_only
    /\ period = 2
    /\ ck_calls = 4
    /\ Len(saves) = 2

\* C19: with save_best_only=True every save is of a monitored value strictly
\* better, in the direction of the mode, than the best before it (the initial
\* infinity or the value of the previous save), and self.best is always the
\* value of the last save, so it never worsens.
C19_BestOnlyImproves ==
    save_best_only =>
        LET initial == IF mode = "min" THEN PosInf ELSE NegInf
            before(k) == IF k = 1 THEN initial ELSE saves[k - 1].value
        IN /\ \A k \in 1..Len(saves) :
                 /\ saves[k].value # NoValue
                 /\ IF mode = "min"
                    THEN saves[k].value < before(k)
                    ELSE saves[k].value > before(k)
           /\ best = before(Len(saves) + 1)

\* mode max, period 1: two epochs improved and were saved, two were not
C19_Witness ==
    /\ save_best_only
    /\ mode = "max"
    /\ period = 1
    /\ ck_calls = 4
    /\ Len(saves) = 2
    /\ best = MaxVal

\* ---------------------------------------------------------------------
\* Properties of TrainingLogs

\* C20: every metric name in the container has a list with one entry per
\* completed epoch, and entry j is the score that metric had accumulated at
\* the end of the j-th completed epoch.
C20_OneScorePerEpoch ==
    \A k \in Names :
        logs[k] # <<>> =>
            /\ Len(logs[k]) = epochs - initial_epoch
            /\ \A j \in 1..Len(logs[k]) : logs[k][j] = epoch_history[j][k]

\* ---------------------------------------------------------------------
\* Further properties of GeneratorEnqueuer

\* C21: a worker that reaches the head of its loop while the stop flag is set
\* leaves the loop there; an iteration pulls at most once and inserts at most
\* once before it is back at the head (size test, then one pull, then one
\* insert); the flag stays set while a worker is alive; so under fair
\* scheduling every worker alive when the flag is set terminates.
C21_WorkersSeeFlag ==
    /\ [][\A t \in Tid :
            /\ (stop_event = "set" /\ tpc[t] = "loop")
                 => tpc'[t] \in {"loop", "exited", "none"}
            /\ tpc[t] = "size" => tpc'[t] \in {"size", "pull", "sleep", "except"}
            /\ tpc[t] = "pull" => tpc'[t] \in {"pull", "put", "except"}
            /\ tpc[t] = "put" => tpc'[t] \in {"put", "loop", "except"}
            /\ tpc[t] = "sleep" => tpc'[t] \in {"sleep", "loop"}
            /\ (stop_event = "set" /\ Alive(t)) => stop_event' = "set"]_vars
    /\ (stop_event = "set") ~> (\A t \in Tid : ~Alive(t))

\* stop() has set the flag with no worker failed, and a worker that was
\* running has left its loop through the flag test
C21_Witness ==
    /\ opc = "stop"
    /\ ~reraise
    /\ stop_event = "set"
    /\ ~SomeWorkerCrashed
    /\ \E t \in Range(threads) : tpc[t] = "exited"

\* the items a state holds: those delivered, those queued, those in a
\* worker's hands between its pull and its insert
ItemsHeld == {held[t] : t \in {u \in Tid : held[u] # NoItem}}

\* C22: a worker goes on to pull only when it has read a queue size below
\* max_q_size, a pull takes exactly one item from the source, and an insert
\* adds exactly the item pulled, once; so the items delivered since start()
\* and those still queued or in a worker's hands are distinct items that
\* were pulled from the source.
C22_OnePullOneInsert ==
    /\ [][\A t \in Tid :
            /\ (tpc[t] = "size" /\ tpc'[t] = "pull") => Len(queue) < mq[t]
            /\ (tpc[t] = "pull" /\ tpc'[t] = "put")
                 => gen_pos' = gen_pos + 1 /\ held'[t] = gen_pos
            /\ (tpc[t] = "put" /\ tpc'[t] = "loop")
                 => queue' = Append(queue, held[t]) /\ held'[t] = NoItem]_vars
    /\ [](LET all == delivered \o queue
          IN /\ \A i \in 1..Len(all) : all[i] \in 0..(gen_pos - 1)
             /\ \A i, j \in 1..Len(all) : i # j => all[i] # all[j]
             /\ \A i \in 1..Len(all) : all[i] \notin ItemsHeld)

\* two workers: the item pulled second was inserted and delivered first
C22_Witness ==
    /\ delivered = <<1, 0>>
    /\ result = "next_item"

\* a __next__ call is in its loop on a running enqueuer with a live worker
\* and an endless source
NextWaiting ==
    /\ gen_len = Endless
    /\ opc = "next"
    /\ is_running
    /\ \E t \in Range(threads) : Alive(t)

\* C23: on a running enqueuer with a live worker and a source that never
\* fails, a __next__ call that is waiting eventually returns under fair
\* scheduling, and a call that returns an item has removed exactly one item,
\* the oldest, from the queue.
C23_NextReturns ==
    /\ NextWaiting ~> (opc = "idle" /\ result = "next_item")
    /\ [][(opc = "next" /\ opc' = "idle" /\ result' = "next_item")
            => /\ queue # <<>>
               /\ queue' = Tail(queue)
               /\ delivered' = Append(delivered, Head(queue))]_vars

\* more items have been returned than a source of MaxItems items holds
C23_Witness ==
    /\ gen_len = Endless
    /\ opc = "idle"
    /\ result = "next_item"
    /\ Len(delivered) = MaxNexts
    /\ is_running

C25_WeightedMean ==
    /\ [](calls_since_reset # <<>> =>
             /\ accumulate.den > 0
             /\ accumulate.num * CountOf(calls_since_reset)
                  = SumOf(calls_since_reset) * accumulate.den)
    /\ [][Len(calls_since_reset') = Len(calls_since_reset) + 1 =>
             LET c == calls_since_reset'[Len(calls_since_reset')]
             IN /\ sample_count' = sample_count + c.n
                /\ metric_sum' = metric_sum + c.score * c.n]_vars

\* two batches of different sizes and different scores have been scored
C25_Witness ==
    /\ metric_op = "call"
    /\ Len(calls_since_reset) = 2
    /\ calls_since_reset[1].n # calls_since_reset[2].n
    /\ calls_since_reset[1].score # calls_since_reset[2].score
    /\ calls_since_reset[1].score > 0

\* ---------------------------------------------------------------------
\* Properties of LossManager

\* C26: get_loss_score() called without a name, when exactly one loss is
\* registered and loss() has computed it, returns that loss's cached score
\* and does not raise.
C26_DefaultScoreOfSingleLoss ==
    (/\ lm_op = "get_loss_score"
     /\ lm_arg = NoName
     /\ Len(loss_names) = 1
     /\ loss_names[1] \in loss_scores)
        => (lm_result = "ok" /\ lm_ret = loss_names[1])

\* C28: the list of names has no duplicates and holds exactly the keys of
\* the three dictionaries, and add_loss called with name=None never fails
\* the duplicate-name assertion.
C28_NamesMatchDicts ==
    /\ \A i, j \in 1..Len(loss_names) : i # j => loss_names[i] # loss_names[j]
    /\ Range(loss_names) = loss_dict
    /\ loss_dict = loss_input_dict
    /\ loss_dict = loss_weight_dict
    /\ ~(lm_op = "add_loss" /\ lm_arg = NoName /\ lm_result = "AssertionError")

\* ---------------------------------------------------------------------
\* Properties of ImageDataAugmenter

\* C27: with save_inverses=True, invert_images on n images after k recorded
\* transforms raises nothing, whether or not n = k, inverts the i-th image
\* with the transform the i-th random_transform call recorded, and leaves
\* the inverse queue empty.
C27_InverseQueueFifo ==
    (save_inverses /\ aug_op = "invert") =>
        /\ inv_result = "ok"
        /\ inverse_transforms = <<>>
        /\ Len(inv_used) = inv_n
        /\ \A i \in 1..Len(inv_used) :
              i <= Len(inv_recorded) /\ inv_used[i] = inv_recorded[i]

\* ---------------------------------------------------------------------
\* GeneratorEnqueuer used from two threads, or stopped with a timeout

\* C29: no step of a worker and no turn of a __next__ loop reads an
\* attribute of a cleared (None) queue or stop flag: a worker that leaves
\* the head of its loop, or its except clause, found a stop flag; one that
\* leaves its size test or its insert found a queue; and __next__ never ends
\* in AttributeError.
C29_NoNoneDereference ==
    [][/\ \A t \in Tid :
            /\ (tpc[t] \in {"loop", "except"} /\ tpc'[t] # tpc[t])
                 => stop_event # "None"
            /\ (tpc[t] \in {"size", "put"} /\ tpc'[t] # tpc[t]) => has_queue
       /\ result' # result => result' # "next_AttributeError"]_vars

====
